---- MODULE Spec2Model ----
(***************************************************************************)
(* The session dialogue controller of ChatGSE (chatgse/_interface.py).     *)
(*                                                                         *)
(* Text is modelled as a sequence of one-character strings so that         *)
(* str.lower(), str.split("." )[0] and the substring test `a in b` are     *)
(* computed as Python computes them.  A history entry {role: msg} is the   *)
(* record [role, msg]; a message built from a fixed template is the record *)
(* [id, arg, n] of the template, the text and the number interpolated in   *)
(* it.  The backend (st.session_state.conversation) is an external         *)
(* collaborator: every call made to it is recorded in `calls`, and what it *)
(* returns is chosen nondeterministically.  Uploaded files are assumed to  *)
(* parse (pd.read_csv does not raise).                                     *)
(***************************************************************************)
EXTENDS Integers, Sequences, FiniteSets, TLC

VARIABLES
    mode,                \* the state string held by the driver (last returned state)
    input,               \* st.session_state.input
    history,             \* st.session_state.history
    log,                 \* lines appended to chatgse-logs.txt
    calls,               \* calls made to st.session_state.conversation, in order
    user_name,           \* conversation.user_name
    context,             \* conversation.context
    primary_model,       \* st.session_state.primary_model
    env_key,             \* st.session_state.<model>_api_key (<<>> when unset)
    token_limit,         \* st.session_state.token_limit (0 when unset)
    asked_for_name,      \* st.session_state.asked_for_name
    show_community_select,
    tool_data,           \* st.session_state.tool_data (the uploader's files)
    started_tool_input,  \* st.session_state.started_tool_input
    tool_list,           \* st.session_state.tool_list
    read_tools,          \* st.session_state.read_tools
    error,               \* st.session_state.error
    last_return          \* what the last handler returned

vars == <<mode, input, history, log, calls, user_name, context, primary_model,
          env_key, token_limit, asked_for_name, show_community_select,
          tool_data, started_tool_input, tool_list, read_tools, error,
          last_return>>

----------------------------------------------------------------------------
(* Bounds of the model *)

MaxFiles == 2
MaxKeyAttempts == 2
MaxNoFiles == 1
MaxQueries == 1
MaxKeyEvents == 4

----------------------------------------------------------------------------
(* Text *)

ToLower ==
    ("A" :> "a") @@ ("B" :> "b") @@ ("C" :> "c") @@ ("D" :> "d") @@
    ("E" :> "e") @@ ("F" :> "f") @@ ("G" :> "g") @@ ("H" :> "h") @@
    ("I" :> "i") @@ ("J" :> "j") @@ ("K" :> "k") @@ ("L" :> "l") @@
    ("M" :> "m") @@ ("N" :> "n") @@ ("O" :> "o") @@ ("P" :> "p") @@
    ("Q" :> "q") @@ ("R" :> "r") @@ ("S" :> "s") @@ ("T" :> "t") @@
    ("U" :> "u") @@ ("V" :> "v") @@ ("W" :> "w") @@ ("X" :> "x") @@
    ("Y" :> "y") @@ ("Z" :> "z")

\* str.lower()
lower(s) == [i \in 1..Len(s) |-> IF s[i] \in DOMAIN ToLower THEN ToLower[s[i]] ELSE s[i]]

\* s.split(".")[0]: the text before the first "."
split_first(s) ==
    LET dots == {i \in 1..Len(s) : s[i] = "."}
    IN  IF dots = {} THEN s
        ELSE SubSeq(s, 1, (CHOOSE i \in dots : \A j \in dots : i <= j) - 1)

\* sub in s (case-sensitive substring test)
contains(sub, s) ==
    \E i \in 0..(Len(s) - Len(sub)) : SubSeq(s, i + 1, i + Len(sub)) = sub

RECURSIVE join(_)
\* ', '.join(names)
join(names) ==
    IF names = <<>> THEN <<>>
    ELSE IF Len(names) = 1 THEN names[1]
    ELSE names[1] \o <<",", " ">> \o join(Tail(names))

KNOWN_TOOLS ==
    << <<"d","e","c","o","u","p","l","e","r">>,
       <<"p","r","o","g","e","n","y">>,
       <<"d","o","r","o","t","h","e","a">>,
       <<"g","s","e","a">> >>

TSV == <<"t","s","v">>

Assistant == <<"A","s","s","i","s","t","a","n","t">>
ChatGSERole == <<"C","h","a","t","G","S","E">>
CorrectingAgent == <<"C","o","r","r","e","c","t","i","n","g"," ","a","g","e","n","t">>
ToolRole == <<"t","o","o","l">>

NegativeAcks == { <<"n">>, <<"n","o">>, <<"n","o",".">> }

TokenLimitGpt == 4097
TokenLimitBloom == 1000

\* a message built from a template, and a text passed on verbatim
Tpl(id, arg, n) == [id |-> id, arg |-> arg, n |-> n]
Verbatim(t) == [id |-> "verbatim", arg |-> t, n |-> 0]

----------------------------------------------------------------------------
(* Inputs *)

File(name, content) == [name |-> name, content |-> content]

ProgenyCsv == File(<<"p","r","o","g","e","n","y",".","c","s","v">>, <<"1">>)
ProgenyCapTsv == File(<<"P","r","o","g","e","n","y",".","t","s","v">>, <<"2">>)
MysteryCsv ==
    File(<<"m","y","s","t","e","r","y","_","t","o","o","l",".","c","s","v">>, <<"3">>)

\* the files a user can upload: a known tool, a file whose name differs from
\* it in letter case and extension only, and an unknown tool
Files == {ProgenyCsv, ProgenyCapTsv, MysteryCsv}

Keys == { <<"s","k">> }
Names == { <<"A","n","n">> }
Contexts == { <<"c","a","n","c","e","r">> }
DescTexts ==
    { <<"n","o">>, <<"N","o",".">>, <<"N">>, <<"n","o","p","e">>, <<" ","n","o">> }
ManualTexts == { <<"T","F"," ","u","p">> }
Questions == { <<"w","h","y","?">> }
Responses == { <<"o","k">> }
Corrections == { <<>>, <<"f","i","x">> }
NoUsage == <<>>
SomeUsage == [prompt_tokens |-> 3, completion_tokens |-> 4, total_tokens |-> 7]
Usages == {NoUsage, SomeUsage}

----------------------------------------------------------------------------
(* The session state as one record, so that a handler is a function of it *)

St ==
    [mode |-> mode, input |-> input, history |-> history, log |-> log,
     calls |-> calls, user_name |-> user_name, context |-> context,
     primary_model |-> primary_model, env_key |-> env_key,
     token_limit |-> token_limit, asked_for_name |-> asked_for_name,
     show_community_select |-> show_community_select,
     tool_data |-> tool_data, started_tool_input |-> started_tool_input,
     tool_list |-> tool_list, read_tools |-> read_tools, error |-> error,
     last_return |-> last_return]

Commit(s) ==
    /\ mode' = s.mode
    /\ input' = s.input
    /\ history' = s.history
    /\ log' = s.log
    /\ calls' = s.calls
    /\ user_name' = s.user_name
    /\ context' = s.context
    /\ primary_model' = s.primary_model
    /\ env_key' = s.env_key
    /\ token_limit' = s.token_limit
    /\ asked_for_name' = s.asked_for_name
    /\ show_community_select' = s.show_community_select
    /\ tool_data' = s.tool_data
    /\ started_tool_input' = s.started_tool_input
    /\ tool_list' = s.tool_list
    /\ read_tools' = s.read_tools
    /\ error' = s.error
    /\ last_return' = s.last_return

Range(q) == {q[i] : i \in 1..Len(q)}

\* a handler's `return state`
Return(s, state) == [s EXCEPT !.mode = state]

\* a call of a method of st.session_state.conversation, with what it returned
Call(s, fn, args, ret) ==
    [s EXCEPT !.calls = Append(@, [fn |-> fn, args |-> args, ret |-> ret])]

_history_only_overwrite(s, role, msg) ==
    [s EXCEPT !.history = <<[role |-> role, msg |-> msg]>>]

_history_only(s, role, msg) ==
    [s EXCEPT !.history = Append(@, [role |-> role, msg |-> msg])]

_write_and_history_no_log(s, role, msg) ==
    [s EXCEPT !.history = Append(@, [role |-> role, msg |-> msg])]

_write_and_history(s, role, msg) ==
    [s EXCEPT !.history = Append(@, [role |-> role, msg |-> msg]),
              !.log = Append(@, [role |-> role, msg |-> msg])]

----------------------------------------------------------------------------
(* API key *)

\* conversation.set_api_key(key, user); `success` is what the backend answers
_try_api_key(s, key, success) == Call(s, "set_api_key", <<key>>, success)

_check_for_api_key_silent(s, write, success) ==
    LET s1 == [s EXCEPT !.token_limit =
                   IF s.primary_model = "gpt-3.5-turbo" THEN TokenLimitGpt
                   ELSE TokenLimitBloom]
        key == s.env_key
    IN  IF key = <<>>
        THEN IF s.primary_model = "gpt-3.5-turbo"
             THEN Return([_history_only(s1, Assistant, Tpl("enter_openai_key", <<>>, 0))
                            EXCEPT !.show_community_select = TRUE],
                         "getting_key")
             ELSE Return(_history_only(s1, Assistant, Tpl("enter_huggingface_key", <<>>, 0)),
                         "getting_key")
        ELSE LET s2 == _try_api_key(s1, key, success)
             IN  IF ~success
                 THEN Return(s2, "getting_key")
                 ELSE LET s3 ==
                            IF ~s2.asked_for_name
                            THEN LET s2a == [s2 EXCEPT !.asked_for_name = TRUE]
                                 IN  IF write
                                     THEN _write_and_history(s2a, Assistant,
                                                             Tpl("ask_name", <<>>, 0))
                                     ELSE _history_only(s2a, Assistant,
                                                        Tpl("ask_name", <<>>, 0))
                            ELSE s2
                      IN  Return([s3 EXCEPT !.show_community_select = FALSE],
                                 "getting_name")

_check_for_api_key(s, write, success) ==
    LET s1 == [s EXCEPT !.token_limit =
                   IF s.primary_model = "gpt-3.5-turbo" THEN TokenLimitGpt
                   ELSE TokenLimitBloom]
        key == s.env_key
    IN  IF key = <<>>
        THEN IF s.primary_model = "gpt-3.5-turbo"
             THEN Return([_history_only(s1, Assistant, Tpl("enter_openai_key", <<>>, 0))
                            EXCEPT !.show_community_select = TRUE],
                         "getting_key")
             ELSE Return(_history_only(s1, Assistant, Tpl("enter_huggingface_key", <<>>, 0)),
                         "getting_key")
        ELSE LET s2 == _try_api_key(s1, key, success)
             IN  IF ~success
                 THEN Return(_history_only(s2, Assistant, Tpl("env_key_invalid", <<>>, 0)),
                             "getting_key")
                 ELSE LET s3 ==
                            IF ~s2.asked_for_name
                            THEN LET s2a == [s2 EXCEPT !.asked_for_name = TRUE]
                                 IN  IF write
                                     THEN _write_and_history(s2a, Assistant,
                                                             Tpl("ask_name", <<>>, 0))
                                     ELSE _history_only(s2a, Assistant,
                                                        Tpl("ask_name", <<>>, 0))
                            ELSE s2
                      IN  Return([s3 EXCEPT !.show_community_select = FALSE],
                                 "getting_name")

_get_api_key_always_asks(s, key, success) ==
    LET s1 == _try_api_key(s, key, success)
    IN  IF ~success
        THEN Return(_write_and_history(s1, Assistant, Tpl("key_invalid", <<>>, 0)),
                    "getting_key")
        ELSE LET s2 == _write_and_history([s1 EXCEPT !.asked_for_name = TRUE],
                                          Assistant, Tpl("thanks_ask_name", <<>>, 0))
             IN  Return([s2 EXCEPT !.show_community_select = FALSE], "getting_name")

_get_api_key_unchecked(s, key, success) ==
    LET s1 == _try_api_key(s, key, success)
        s2 == IF ~s1.asked_for_name
              THEN _write_and_history([s1 EXCEPT !.asked_for_name = TRUE],
                                      Assistant, Tpl("thanks_ask_name", <<>>, 0))
              ELSE s1
    IN  Return([s2 EXCEPT !.show_community_select = FALSE], "getting_name")

_get_api_key(s, key, success) ==
    LET s1 == _try_api_key(s, key, success)
    IN  IF ~success
        THEN Return(_write_and_history(s1, Assistant, Tpl("key_invalid", <<>>, 0)),
                    "getting_key")
        ELSE LET s2 ==
                   IF ~s1.asked_for_name
                   THEN _write_and_history([s1 EXCEPT !.asked_for_name = TRUE],
                                           Assistant, Tpl("thanks_ask_name", <<>>, 0))
                   ELSE s1
             IN  Return([s2 EXCEPT !.show_community_select = FALSE], "getting_name")

----------------------------------------------------------------------------
(* Name and context *)

_get_user_name(s) ==
    LET name == s.input
        s1 == [Call(s, "set_user_name", <<name>>, TRUE) EXCEPT !.user_name = name]
        s2 == _write_and_history(s1, name, Verbatim(name))
        s3 == _write_and_history(s2, Assistant, Tpl("ask_context", name, 0))
    IN  Return(s3, "getting_context")

_get_context_no_setup(s) ==
    Return(_write_and_history(s, s.user_name, Verbatim(s.input)), "None")

\* has no return statement: yields None
_get_context(s) ==
    LET s1 == _write_and_history(s, s.user_name, Verbatim(s.input))
        s2 == [Call(s1, "setup", <<s.input>>, TRUE) EXCEPT !.context = s.input]
    IN  Return(s2, "None")

file_names(fls) == [i \in 1..Len(fls) |-> fls[i].name]

_ask_for_data_input(s) ==
    IF s.tool_data = <<>>
    THEN LET s1 == _write_and_history(s, Assistant,
                                      Tpl("context_provide_files", s.context, s.token_limit))
             s2 == _write_and_history(s1, Assistant, Tpl("press_no", <<>>, 0))
         IN  Return(s2, "getting_data_file_input")
    ELSE Return(_write_and_history(s, Assistant,
                    Tpl("context_files_uploaded",
                        s.context \o <<":">> \o join(file_names(s.tool_data)), 0)),
                "getting_data_file_input")

----------------------------------------------------------------------------
(* Tool data *)

\* "demo" in st.session_state.get("mode"): none of the state strings that
\* the handlers return contains "demo"
demo_in_mode(m) == m \in {}

\* pd.read_csv(fl, sep=...)
read_csv(fl, sep) == [rows |-> fl.content, sep |-> sep]
\* df.to_markdown()
to_markdown(df) == <<"|">> \o df.rows \o <<"|">>
\* df.to_json()
to_json(df) == <<"{">> \o df.rows \o <<"}">>

tool_name_not_lowered(fl) == split_first(fl.name)

\* fl.name.split(".")[0].lower()
tool_name(fl) == lower(split_first(fl.name))

\* any([tool in fl.name for tool in KNOWN_TOOLS])
is_known_tool(fl) == \E k \in 1..Len(KNOWN_TOOLS) : contains(KNOWN_TOOLS[k], fl.name)

ingest_file_not_marked(s, fl) ==
    LET tool == tool_name(fl)
        df == IF contains(TSV, fl.name) THEN read_csv(fl, "\t") ELSE read_csv(fl, ",")
        s2 == _write_and_history(s, Assistant, Tpl("tool_results", tool, 0))
        s3 == [s2 EXCEPT !.history =
                   Append(@, [role |-> ToolRole, msg |-> Verbatim(to_markdown(df))])]
    IN  IF ~is_known_tool(fl)
        THEN Return(_write_and_history(s3, Assistant, Tpl("unknown_tool", tool, 0)),
                    "getting_data_file_description")
        ELSE LET s4 == Call(s3, "setup_data_input_tool", <<to_json(df), tool>>, TRUE)
                 s5 == _write_and_history(s4, Assistant, Tpl("ask_additional", <<>>, 0))
             IN  Return(s5, "getting_data_file_description")

\* the body of the loop over tool_list, for the first file that is not skipped
ingest_file(s, fl) ==
    LET tool == tool_name(fl)
        df == IF contains(TSV, fl.name) THEN read_csv(fl, "\t") ELSE read_csv(fl, ",")
        s1 == [s EXCEPT !.read_tools = Append(@, tool)]
        s2 == _write_and_history(s1, Assistant, Tpl("tool_results", tool, 0))
        s3 == [s2 EXCEPT !.history =
                   Append(@, [role |-> ToolRole, msg |-> Verbatim(to_markdown(df))])]
    IN  IF ~is_known_tool(fl)
        THEN Return(_write_and_history(s3, Assistant, Tpl("unknown_tool", tool, 0)),
                    "getting_data_file_description")
        ELSE LET s4 == Call(s3, "setup_data_input_tool", <<to_json(df), tool>>, TRUE)
                 s5 == _write_and_history(s4, Assistant, Tpl("ask_additional", <<>>, 0))
             IN  Return(s5, "getting_data_file_description")

\* the files of tool_list that the loop does not skip
unread(s) ==
    {i \in 1..Len(s.tool_list) : tool_name(s.tool_list[i]) \notin Range(s.read_tools)}

last_unread(s) == CHOOSE i \in unread(s) : \A j \in unread(s) : i >= j

\* the loop runs in list order and returns in its first iteration that is not skipped
first_unread(s) == CHOOSE i \in unread(s) : \A j \in unread(s) : i <= j

\* if not st.session_state.get("read_tools"): st.session_state.read_tools = []
init_read_tools(s) == [s EXCEPT !.read_tools = IF @ = <<>> THEN <<>> ELSE @]

_get_data_input(s) ==
    IF s.tool_data = <<>> /\ ~demo_in_mode(s.mode)
    THEN Return(_write_and_history(s, Assistant, Tpl("no_files_detected", <<>>, 0)),
                "getting_data_file_input")
    ELSE LET s1 ==
               IF ~s.started_tool_input
               THEN LET s0 == [s EXCEPT !.started_tool_input = TRUE,
                                        !.tool_list = s.tool_data]
                    IN  _write_and_history(s0, Assistant,
                            Tpl("files_read", join(file_names(s0.tool_list)),
                                Len(s0.tool_list)))
               ELSE s
             s2 == init_read_tools(s1)
         IN  IF Len(s2.read_tools) = Len(s2.tool_list)
             THEN Return(_write_and_history(s2, Assistant, Tpl("all_read", <<>>, 0)),
                         "chat")
             ELSE IF unread(s2) = {}
                  THEN Return(s2, "None")   \* the loop ends without a return
                  ELSE ingest_file(s2, s2.tool_list[first_unread(s2)])

_get_data_file_description_exact(s) ==
    LET response == s.input
        s1 == [s EXCEPT !.input = <<>>]
        s2 == _write_and_history(s1, s1.user_name, Verbatim(response))
    IN  IF response \in NegativeAcks
        THEN _get_data_input(_write_and_history(s2, Assistant,
                                                Tpl("use_tool_info_only", <<>>, 0)))
        ELSE LET s3 == Call(s2, "append_user_message", <<response>>, TRUE)
             IN  _get_data_input(_write_and_history(s3, Assistant,
                                                    Tpl("thanks_for_input", <<>>, 0)))

_get_data_file_description(s) ==
    LET response == s.input
        s1 == [s EXCEPT !.input = <<>>]
        s2 == _write_and_history(s1, s1.user_name, Verbatim(response))
    IN  IF lower(response) \in NegativeAcks
        THEN _get_data_input(_write_and_history(s2, Assistant,
                                                Tpl("use_tool_info_only", <<>>, 0)))
        ELSE LET s3 == Call(s2, "append_user_message", <<response>>, TRUE)
             IN  _get_data_input(_write_and_history(s3, Assistant,
                                                    Tpl("thanks_for_input", <<>>, 0)))

_ask_for_manual_data_input(s) ==
    Return(_write_and_history(s, Assistant, Tpl("ask_manual_data", <<>>, 0)),
           "getting_manual_data_input")

_get_data_input_manual_no_call(s) ==
    LET s2 == _write_and_history(s, s.user_name, Verbatim(s.input))
        s3 == _write_and_history(s2, Assistant, Tpl("thanks_enter_questions", <<>>, 0))
    IN  Return(s3, "chat")

_get_data_input_manual(s) ==
    LET s1 == Call(s, "setup_data_input_manual", <<s.input>>, TRUE)
        s2 == _write_and_history(s1, s1.user_name, Verbatim(s.input))
        s3 == _write_and_history(s2, Assistant, Tpl("thanks_enter_questions", <<>>, 0))
    IN  Return(s3, "chat")

----------------------------------------------------------------------------
(* Chat *)

ZeroUsage == [prompt_tokens |-> 0, completion_tokens |-> 0, total_tokens |-> 0]

_get_response_correction_first(s, response, token_usage, correction) ==
    LET s1 == Call(s, "query", <<s.input>>,
                   [response |-> response, token_usage |-> token_usage,
                    correction |-> correction])
    IN  IF DOMAIN token_usage = {}
        THEN LET s2 == _write_and_history(s1, Assistant, Tpl("model_error", response, 0))
             IN  [s2 EXCEPT !.error = TRUE,
                            !.last_return = [response |-> response,
                                             token_usage |-> ZeroUsage]]
        ELSE LET s2 == _write_and_history(s1, s1.user_name, Verbatim(s1.input))
                 s3 == IF correction # <<>>
                       THEN _write_and_history(
                                _write_and_history(s2, CorrectingAgent, Verbatim(correction)),
                                ChatGSERole, Verbatim(response))
                       ELSE _write_and_history(s2, ChatGSERole, Verbatim(response))
             IN  [s3 EXCEPT !.last_return = [response |-> response,
                                             token_usage |-> token_usage]]

_get_response_echo_on_error(s, response, token_usage, correction) ==
    LET s1 == Call(s, "query", <<s.input>>,
                   [response |-> response, token_usage |-> token_usage,
                    correction |-> correction])
        s2 == _write_and_history(s1, s1.user_name, Verbatim(s1.input))
    IN  IF DOMAIN token_usage = {}
        THEN LET s3 == _write_and_history(s2, Assistant, Tpl("model_error", response, 0))
             IN  [s3 EXCEPT !.error = TRUE,
                            !.last_return = [response |-> response,
                                             token_usage |-> ZeroUsage]]
        ELSE LET s3 == IF correction # <<>>
                       THEN _write_and_history(
                                _write_and_history(s2, ChatGSERole, Verbatim(response)),
                                CorrectingAgent, Verbatim(correction))
                       ELSE _write_and_history(s2, ChatGSERole, Verbatim(response))
             IN  [s3 EXCEPT !.last_return = [response |-> response,
                                             token_usage |-> token_usage]]

\* `response`, `token_usage`, `correction` are what conversation.query returns
_get_response(s, response, token_usage, correction) ==
    LET s1 == Call(s, "query", <<s.input>>,
                   [response |-> response, token_usage |-> token_usage,
                    correction |-> correction])
    IN  IF DOMAIN token_usage = {}
        THEN LET s2 == _write_and_history(s1, Assistant, Tpl("model_error", response, 0))
             IN  [s2 EXCEPT !.error = TRUE,
                            !.last_return = [response |-> response,
                                             token_usage |-> ZeroUsage]]
        ELSE LET s2 == _write_and_history(s1, s1.user_name, Verbatim(s1.input))
                 s3 == IF correction # <<>>
                       THEN _write_and_history(
                                _write_and_history(s2, ChatGSERole, Verbatim(response)),
                                CorrectingAgent, Verbatim(correction))
                       ELSE _write_and_history(s2, ChatGSERole, Verbatim(response))
             IN  [s3 EXCEPT !.last_return = [response |-> response,
                                             token_usage |-> token_usage]]

----------------------------------------------------------------------------
(* The session: construction, and one action per event *)

NoReturn == [response |-> <<>>, token_usage |-> NoUsage]

\* ChatGSE.__init__ on a fresh session, the driver waiting for a key
Init ==
    /\ mode = "getting_key"
    /\ input = <<>>
    /\ history = << [role |-> Assistant, msg |-> Tpl("welcome", <<>>, 0)] >>
    /\ log = <<>>
    /\ calls = <<>>
    /\ user_name = <<>>
    /\ context = <<>>
    /\ primary_model \in {"gpt-3.5-turbo", "bigscience/bloom"}
    /\ env_key \in {<<>>} \cup Keys
    /\ token_limit = 0
    /\ asked_for_name = FALSE
    /\ show_community_select = FALSE
    /\ tool_data = <<>>
    /\ started_tool_input = FALSE
    /\ tool_list = <<>>
    /\ read_tools = <<>>
    /\ error = FALSE
    /\ last_return = NoReturn

Count(q, P(_)) == Cardinality({i \in 1..Len(q) : P(q[i])})

IsKeyPrompt(e) == e.msg.id \in {"enter_openai_key", "enter_huggingface_key"}
IsKeyCall(c) == c.fn = "set_api_key"
IsNoFiles(e) == e.msg.id = "no_files_detected"
IsQuery(c) == c.fn = "query"

KeyAttempts == Count(history, IsKeyPrompt) + Count(calls, IsKeyCall)

\* which handler the driver runs in which state (the transition table)
Dispatch(handler) ==
    CASE handler = "_check_for_api_key" -> mode = "getting_key"
      [] handler = "_get_api_key" -> mode = "getting_key"
      [] handler = "_get_user_name" -> mode = "getting_name"
      [] handler = "_get_context" -> mode = "getting_context"
      [] handler = "upload" -> mode \in {"getting_context", "getting_data_file_input"}
      [] handler = "_get_data_input" -> mode = "getting_data_file_input"
      [] handler = "_ask_for_manual_data_input" -> mode = "getting_data_file_input"
      [] handler = "_get_data_file_description" -> mode = "getting_data_file_description"
      [] handler = "_get_data_input_manual" -> mode = "getting_manual_data_input"
      [] handler = "_get_response" -> mode = "chat"

CheckForApiKey ==
    /\ Dispatch("_check_for_api_key")
    /\ KeyAttempts < MaxKeyAttempts
    /\ \E write \in BOOLEAN, success \in BOOLEAN :
           Commit(_check_for_api_key(St, write, success))

GetApiKey ==
    /\ Dispatch("_get_api_key")
    /\ KeyAttempts < MaxKeyAttempts
    /\ \E key \in Keys, success \in BOOLEAN : Commit(_get_api_key(St, key, success))

GetUserName ==
    /\ Dispatch("_get_user_name")
    /\ \E name \in Names : Commit(_get_user_name([St EXCEPT !.input = name]))

\* the driver runs _get_context and then _ask_for_data_input
GetContext ==
    /\ Dispatch("_get_context")
    /\ \E text \in Contexts :
           Commit(_ask_for_data_input(_get_context([St EXCEPT !.input = text])))

\* the user adds a file in the sidebar
UploadFile ==
    /\ Dispatch("upload")
    /\ ~started_tool_input
    /\ Len(tool_data) < MaxFiles
    /\ \E fl \in Files \ Range(tool_data) : tool_data' = Append(tool_data, fl)
    /\ UNCHANGED <<mode, input, history, log, calls, user_name, context,
                   primary_model, env_key, token_limit, asked_for_name,
                   show_community_select, started_tool_input, tool_list,
                   read_tools, error, last_return>>

\* the user presses 'Yes'
GetDataInput ==
    /\ Dispatch("_get_data_input")
    /\ tool_data = <<>> => Count(history, IsNoFiles) < MaxNoFiles
    /\ Commit(_get_data_input(St))

\* the user presses 'No'
AskForManualDataInput ==
    /\ Dispatch("_ask_for_manual_data_input")
    /\ Commit(_ask_for_manual_data_input(St))

GetDataFileDescription ==
    /\ Dispatch("_get_data_file_description")
    /\ \E text \in DescTexts :
           Commit(_get_data_file_description([St EXCEPT !.input = text]))

GetDataInputManual ==
    /\ Dispatch("_get_data_input_manual")
    /\ \E text \in ManualTexts :
           Commit(_get_data_input_manual([St EXCEPT !.input = text]))

GetResponse ==
    /\ Dispatch("_get_response")
    /\ Count(calls, IsQuery) < MaxQueries
    /\ \E text \in Questions, response \in Responses, token_usage \in Usages,
          correction \in Corrections :
           Commit(_get_response([St EXCEPT !.input = text],
                                response, token_usage, correction))

Next ==
    \/ CheckForApiKey
    \/ GetApiKey
    \/ GetUserName
    \/ GetContext
    \/ UploadFile
    \/ GetDataInput
    \/ AskForManualDataInput
    \/ GetDataFileDescription
    \/ GetDataInputManual
    \/ GetResponse

Spec == Init /\ [][Next]_vars

TypeOK ==
    /\ mode \in {"getting_key", "getting_name", "getting_context",
                 "getting_data_file_input", "getting_data_file_description",
                 "getting_manual_data_input", "chat", "None"}
    /\ Len(log) <= Len(history)
    /\ token_limit \in {0, TokenLimitGpt, TokenLimitBloom}

----------------------------------------------------------------------------
(* Properties *)

States ==
    {"getting_key", "getting_name", "getting_context", "getting_data_file_input",
     "getting_data_file_description", "getting_manual_data_input", "chat"}

IsPrefix(a, b) == Len(a) <= Len(b) /\ SubSeq(b, 1, Len(a)) = a
\* what a step appended to a sequence
Added(q, q2) == SubSeq(q2, Len(q) + 1, Len(q2))

IsToolEntry(e) == e.role = ToolRole
IsToolCall(c) == c.fn = "setup_data_input_tool"
IsAppendCall(c) == c.fn = "append_user_message"
IsManualCall(c) == c.fn = "setup_data_input_manual"
IsReply(e) == e.msg.id \in {"use_tool_info_only", "thanks_for_input"}

Progeny == <<"p","r","o","g","e","n","y">>
MysteryTool == <<"m","y","s","t","e","r","y","_","t","o","o","l">>
Nope == <<"n","o","p","e">>

\* the derived tool name of a file name: the text before the first ".", lower-cased
DerivedName(name) == lower(split_first(name))

\* every file of tool_list is marked read
AllMarkedRead ==
    \A i \in 1..Len(tool_list) : DerivedName(tool_list[i].name) \in Range(read_tools)

\* C1: after every event the state string the handler returned is one of
\* the seven enumerated states (never None).
C1_StateEnumerated == mode \in States

\* C2: the history is append-only: every step leaves the history it started
\* from as a prefix of the history it ends with.
C2_HistoryAppendOnly == [][IsPrefix(history, history')]_vars

C2_Witness ==
    /\ \E i \in 1..Len(history) : IsToolEntry(history[i])
    /\ \E i \in 1..Len(history) : history[i].msg.id = "env_key_invalid"

\* C3: every name in read_tools is the derived tool name of a file of
\* tool_list, and no step removes a name from read_tools.
C3_ReadToolsDerived ==
    /\ [](\A i \in 1..Len(read_tools) :
             \E j \in 1..Len(tool_list) : read_tools[i] = DerivedName(tool_list[j].name))
    /\ [][Range(read_tools) \subseteq Range(read_tools')]_vars

C3_Witness ==
    /\ Len(read_tools) = 2
    /\ \E j \in 1..Len(tool_list) : tool_list[j] = ProgenyCapTsv /\ read_tools[j] = Progeny

\* C4: a key event ends in getting_name exactly when, in that event, the
\* backend's set_api_key returned success; otherwise it ends in getting_key
\* and the name is not asked for.
C4_NameOnlyAfterValidKey ==
    [][mode = "getting_key" =>
         LET validated == /\ Len(calls') = Len(calls) + 1
                          /\ calls'[Len(calls')].fn = "set_api_key"
                          /\ calls'[Len(calls')].ret = TRUE
         IN  /\ mode' = "getting_name" <=> validated
             /\ ~validated => /\ mode' = "getting_key"
                              /\ asked_for_name' = asked_for_name]_vars

C4_Witness ==
    /\ mode = "getting_name"
    /\ \E i \in 1..Len(calls) : calls[i].fn = "set_api_key" /\ calls[i].ret = FALSE

\* C5: a description reply given when every file of tool_list is marked read
\* re-invokes ingestion, which appends the summary and returns chat, with
\* no tool entry and no backend call of its own.
C5_AllReadGivesSummary ==
    [][(mode = "getting_data_file_description" /\ AllMarkedRead) =>
         /\ mode' = "chat"
         /\ history'[Len(history')].msg.id = "all_read"
         /\ Count(Added(history, history'), IsToolEntry) = 0
         /\ Count(Added(calls, calls'), IsToolCall) = 0]_vars

\* C6: a description reply is a skip (no append_user_message call) exactly
\* when its lower-cased text is "n", "no" or "no."; any other text is
\* forwarded by exactly one append_user_message call carrying it.  Either
\* way the text is echoed first and ingestion runs on the result.
C6_NegativeAckExact ==
    [][mode = "getting_data_file_description" =>
         LET t == history'[Len(history) + 1].msg.arg
             skip == lower(t) \in { <<"n">>, <<"n","o">>, <<"n","o",".">> }
             forward == [fn |-> "append_user_message", args |-> <<t>>, ret |-> TRUE]
             ack == [role |-> Assistant,
                     msg |-> Tpl(IF skip THEN "use_tool_info_only" ELSE "thanks_for_input",
                                 <<>>, 0)]
             echo == [role |-> user_name, msg |-> Verbatim(t)]
             mid == [St EXCEPT !.input = <<>>,
                               !.history = history \o <<echo, ack>>,
                               !.log = log \o <<echo, ack>>,
                               !.calls = IF skip THEN calls ELSE Append(calls, forward)]
         IN  /\ t \in DescTexts
             /\ history'[Len(history) + 1] = echo
             /\ Count(Added(calls, calls'), IsAppendCall) = IF skip THEN 0 ELSE 1
             /\ ~skip => calls'[Len(calls) + 1] = forward
             /\ (t = Nope \/ t = <<" ","n","o">>) => ~skip
             /\ mode' = _get_data_input(mid).mode
             /\ history' = _get_data_input(mid).history
             /\ calls' = _get_data_input(mid).calls]_vars

C6_Witness ==
    /\ \E i \in 1..Len(calls) : IsAppendCall(calls[i]) /\ calls[i].args = <<Nope>>
    /\ \E i \in 1..Len(history) :
           /\ history[i].msg = Verbatim(<<"N","o",".">>)
           /\ history[i + 1].msg.id = "use_tool_info_only"
    /\ Count(calls, IsAppendCall) = 1

\* C7: pressing 'No' with an empty tool_list leads to
\* getting_manual_data_input; a manual text given there leads to chat with
\* exactly one backend call, setup_data_input_manual of that text, no
\* setup_data_input_tool call, and the text echoed to the history.
C7_ManualInput ==
    [][/\ (AskForManualDataInput /\ tool_list = <<>>) =>
              mode' = "getting_manual_data_input"
       /\ mode = "getting_manual_data_input" =>
              \E t \in ManualTexts :
                  /\ input' = t
                  /\ mode' = "chat"
                  /\ calls' = Append(calls, [fn |-> "setup_data_input_manual",
                                             args |-> <<t>>, ret |-> TRUE])
                  /\ Count(calls', IsToolCall) = 0
                  /\ history'[Len(history) + 1] =
                         [role |-> user_name, msg |-> Verbatim(t)]]_vars

C7_Witness ==
    /\ mode = "chat"
    /\ tool_list = <<>>
    /\ Count(calls, IsManualCall) = 1

\* C8: with the single unread known-tool file progeny.csv, pressing 'Yes'
\* appends one tool entry, marks "progeny" read, calls setup_data_input_tool
\* once with that name and returns getting_data_file_description; a negative
\* acknowledgement then leads to chat with no further tool entry or backend call.
C8_SingleKnownFile ==
    [][/\ (GetDataInput /\ tool_data = <<ProgenyCsv>>) =>
              /\ Count(Added(history, history'), IsToolEntry) = 1
              /\ read_tools' = <<Progeny>>
              /\ Len(calls') = Len(calls) + 1
              /\ IsToolCall(calls'[Len(calls')])
              /\ calls'[Len(calls')].args[2] = Progeny
              /\ mode' = "getting_data_file_description"
       /\ (/\ mode = "getting_data_file_description"
           /\ tool_list = <<ProgenyCsv>>
           /\ lower(history'[Len(history) + 1].msg.arg) = <<"n","o">>) =>
              /\ mode' = "chat"
              /\ Count(Added(history, history'), IsToolEntry) = 0
              /\ calls' = calls
              /\ read_tools' = read_tools]_vars

C8_Witness ==
    /\ mode = "chat"
    /\ tool_list = <<ProgenyCsv>>
    /\ Count(calls, IsToolCall) = 1
    /\ Count(history, IsToolEntry) = 1
    /\ Count(calls, IsAppendCall) = 0

\* C9: when query returns no token usage, the step appends exactly one
\* history entry, the error prefix with the response from the Assistant,
\* sets the error flag, returns all-zero token counts, makes the one query
\* call only, and the session stays in chat.
C9_QueryError ==
    [][mode = "chat" =>
         LET q == calls'[Len(calls')]
         IN  (q.fn = "query" /\ DOMAIN q.ret.token_usage = {}) =>
                 /\ history' = Append(history,
                        [role |-> Assistant, msg |-> Tpl("model_error", q.ret.response, 0)])
                 /\ error'
                 /\ last_return'.token_usage.prompt_tokens = 0
                 /\ last_return'.token_usage.completion_tokens = 0
                 /\ last_return'.token_usage.total_tokens = 0
                 /\ last_return'.response = q.ret.response
                 /\ Len(calls') = Len(calls) + 1
                 /\ mode' = "chat"]_vars

C9_Witness ==
    /\ error
    /\ mode = "chat"
    /\ history[Len(history)].msg.id = "model_error"

\* the files of tool_list in the order in which ingestion reaches them: a
\* file whose derived name an earlier file has is never reached
RECURSIVE IngestOrder(_, _)
IngestOrder(fls, seen) ==
    IF fls = <<>> THEN <<>>
    ELSE IF DerivedName(fls[1].name) \in seen THEN IngestOrder(Tail(fls), seen)
    ELSE <<fls[1]>> \o IngestOrder(Tail(fls), seen \cup {DerivedName(fls[1].name)})

ToolEntries == SelectSeq(history, IsToolEntry)

\* C10: files are ingested in tool_list order, one per ingestion: the tool
\* entries and read_tools follow the list order, a step ingests at most one
\* file and then pauses in getting_data_file_description, the unknown file
\* gets the request for a description and no setup_data_input_tool call,
\* and a file is ingested only after the prompts of all earlier files were
\* answered.
C10_OneFilePerInvocationInOrder ==
    /\ [](LET order == IngestOrder(tool_list, {})
          IN  /\ Len(read_tools) <= Len(order)
              /\ Len(ToolEntries) = Len(read_tools)
              /\ \A k \in 1..Len(read_tools) :
                     /\ read_tools[k] = DerivedName(order[k].name)
                     /\ ToolEntries[k].msg.arg = <<"|">> \o order[k].content \o <<"|">>
              /\ Len(read_tools) <= Count(history, IsReply) + 1
              /\ Count(calls, IsToolCall) <= Count(history, IsReply) + 1)
    /\ [][/\ Len(read_tools') <= Len(read_tools) + 1
          /\ Len(read_tools') = Len(read_tools) + 1 =>
                 /\ mode' = "getting_data_file_description"
                 /\ Count(Added(history, history'), IsToolEntry) = 1
                 /\ Count(Added(calls, calls'), IsToolCall) <= 1
          /\ read_tools' = Append(read_tools, MysteryTool) =>
                 /\ Count(Added(calls, calls'), IsToolCall) = 0
                 /\ history'[Len(history')].msg = Tpl("unknown_tool", MysteryTool, 0)
          /\ read_tools' = Append(read_tools, Progeny) /\ ProgenyCsv \in Range(tool_list')
             /\ ProgenyCapTsv \notin Range(tool_list') =>
                 /\ Count(Added(calls, calls'), IsToolCall) = 1
                 /\ history'[Len(history')].msg.id = "ask_additional"]_vars

C10_Witness ==
    /\ tool_list = <<ProgenyCsv, MysteryCsv>>
    /\ read_tools = <<Progeny, MysteryTool>>
    /\ Count(calls, IsToolCall) = 1
    /\ mode = "chat"

\* a file name matches the registry: it contains one of the registry names,
\* letter case ignored
MatchesRegistry(name) ==
    \E k \in 1..Len(KNOWN_TOOLS) : contains(KNOWN_TOOLS[k], lower(name))

\* the file that a step which marks one more tool read has ingested
IngestedFile == IngestOrder(tool_list', {})[Len(read_tools')]

\* C11: a file is treated as a known tool (setup_data_input_tool is called
\* for it) exactly when its name contains a registry name, letter case
\* ignored.
C11_CaseInsensitiveMatch ==
    [][Len(read_tools') = Len(read_tools) + 1 =>
         (MatchesRegistry(IngestedFile.name)
              <=> Count(Added(calls, calls'), IsToolCall) = 1)]_vars

\* C12: every invocation of ingestion appends at least one history entry:
\* pressing 'Yes' grows the history, and a description reply grows it by
\* more than the echo and the acknowledgement that precede ingestion.
C12_IngestionAppends ==
    [][/\ GetDataInput => Len(history') > Len(history)
       /\ mode = "getting_data_file_description" =>
              Len(history') > Len(history) + 2]_vars

ToolCalls == SelectSeq(calls, IsToolCall)
MatchesRegistryFile(fl) == MatchesRegistry(fl.name)

\* C13: the setup_data_input_tool calls made so far are, in order, one call
\* for each ingested file that matches the registry, with its derived name,
\* and no other call.
C13_OneToolCallPerMatchedFile ==
    LET ingested == SubSeq(IngestOrder(tool_list, {}), 1, Len(read_tools))
        matched == SelectSeq(ingested, MatchesRegistryFile)
    IN  /\ Len(ToolCalls) = Len(matched)
        /\ \A k \in 1..Len(matched) :
               ToolCalls[k].args[2] = DerivedName(matched[k].name)

\* C14: once ingestion has started, every description reply either ingests
\* the next unread file or ends in chat, the session is in
\* getting_data_file_description or chat, and there is at most one reply
\* per file: a user who answers every prompt reaches chat.
C14_RepliesLeadToChat ==
    /\ [](started_tool_input =>
              /\ mode \in {"getting_data_file_description", "chat"}
              /\ Count(history, IsReply) <= Len(tool_list))
    /\ [][mode = "getting_data_file_description" =>
              \/ mode' = "chat"
              \/ /\ mode' = "getting_data_file_description"
                 /\ Len(read_tools') = Len(read_tools) + 1]_vars

\* C15: a query that returns token usage appends the user's message, then
\* the response, then the correction if there is one (2 or 3 entries, in
\* this order), leaves the error flag alone and stays in chat.
C15_QuerySuccess ==
    [][mode = "chat" =>
         LET q == calls'[Len(calls')]
             user == [role |-> user_name, msg |-> Verbatim(q.args[1])]
             answer == [role |-> ChatGSERole, msg |-> Verbatim(q.ret.response)]
             fix == [role |-> CorrectingAgent, msg |-> Verbatim(q.ret.correction)]
         IN  (q.fn = "query" /\ DOMAIN q.ret.token_usage # {}) =>
                 /\ history' = history \o (IF q.ret.correction # <<>>
                                           THEN <<user, answer, fix>>
                                           ELSE <<user, answer>>)
                 /\ error' = error
                 /\ last_return'.token_usage = q.ret.token_usage
                 /\ Len(calls') = Len(calls) + 1
                 /\ mode' = "chat"]_vars

C15_Witness ==
    /\ mode = "chat"
    /\ ~error
    /\ history[Len(history)].role = CorrectingAgent
    /\ history[Len(history) - 1].role = ChatGSERole

IsRejectedKeyCall(c) == c.fn = "set_api_key" /\ c.ret = FALSE

\* C16: a key event in which the backend rejects the key appends one retry
\* message from the Assistant and nothing else, returns getting_key and
\* leaves the asked-for-name flag alone.
C16_RejectedKeyRetries ==
    [][(/\ mode = "getting_key"
        /\ Len(calls') = Len(calls) + 1
        /\ IsRejectedKeyCall(calls'[Len(calls')])) =>
           /\ Len(history') = Len(history) + 1
           /\ IsPrefix(history, history')
           /\ history'[Len(history')].role = Assistant
           /\ history'[Len(history')].msg.id \in {"key_invalid", "env_key_invalid"}
           /\ mode' = "getting_key"
           /\ asked_for_name' = asked_for_name]_vars

C16_Witness ==
    /\ mode = "getting_key"
    /\ Count(calls, IsRejectedKeyCall) = 2
    /\ ~asked_for_name

----------------------------------------------------------------------------
(* Key events only: the key handlers run again after a key was accepted *)

KeyEventModes == {"getting_key", "getting_name"}

ReCheckForApiKey ==
    /\ mode \in KeyEventModes
    /\ KeyAttempts < MaxKeyEvents
    /\ \E write \in BOOLEAN, success \in BOOLEAN :
           Commit(_check_for_api_key(St, write, success))

ReGetApiKey ==
    /\ mode \in KeyEventModes
    /\ KeyAttempts < MaxKeyEvents
    /\ \E key \in Keys, success \in BOOLEAN : Commit(_get_api_key(St, key, success))

KeyNext ==
    \/ ReCheckForApiKey
    \/ ReGetApiKey

SpecKey == Init /\ [][KeyNext]_vars

IsNameRequest(e) == e.msg.id \in {"ask_name", "thanks_ask_name"}
IsAcceptedKeyCall(c) == c.fn = "set_api_key" /\ c.ret = TRUE

\* C17: over any sequence of key events the name request is in the history
\* once if a key was accepted and not at all otherwise; it is appended only
\* by the first accepted key, and every accepted key returns getting_name.
C17_NameRequestOnce ==
    /\ [](Count(history, IsNameRequest) =
              IF Count(calls, IsAcceptedKeyCall) > 0 THEN 1 ELSE 0)
    /\ [][LET accepted == /\ Len(calls') = Len(calls) + 1
                          /\ IsAcceptedKeyCall(calls'[Len(calls')])
          IN  /\ accepted => mode' = "getting_name"
              /\ Count(Added(history, history'), IsNameRequest) =
                     IF accepted /\ Count(calls, IsAcceptedKeyCall) = 0 THEN 1 ELSE 0]_vars

C17_Witness ==
    /\ Count(calls, IsAcceptedKeyCall) = 2
    /\ Count(calls, IsRejectedKeyCall) >= 1
    /\ Count(history, IsNameRequest) = 1
    /\ mode = "getting_name"

----------------------------------------------------------------------------

IsSetupCall(c) == c.fn = "setup"

\* C18: a context text given in getting_context is echoed to the history,
\* passed to the backend's setup in the one call of the step, and the next
\* state is getting_data_file_input.
C18_ContextSetup ==
    [][(mode = "getting_context" /\ tool_data' = tool_data) =>
           \E t \in Contexts :
               /\ input' = t
               /\ history'[Len(history) + 1] = [role |-> user_name, msg |-> Verbatim(t)]
               /\ IsPrefix(history, history')
               /\ calls' = Append(calls, [fn |-> "setup", args |-> <<t>>, ret |-> TRUE])
               /\ mode' = "getting_data_file_input"]_vars

C18_Witness ==
    /\ mode = "getting_data_file_input"
    /\ Count(calls, IsSetupCall) = 1
    /\ context \in Contexts
    /\ \E i \in 1..Len(history) : history[i] = [role |-> user_name, msg |-> Verbatim(context)]

IsMessageEntry(e) == ~IsToolEntry(e)

\* C19 as stated: the log holds exactly the Message entries of the history,
\* in the history's order.
C19_LogMirrorsHistory == log = SelectSeq(history, IsMessageEntry)

\* the messages that are only ever appended through _write_and_history
IsAlwaysWritten(e) ==
    /\ IsMessageEntry(e)
    /\ e.msg.id \notin {"welcome", "enter_openai_key", "enter_huggingface_key",
                        "env_key_invalid", "ask_name"}
IsWrittenOrNameRequest(e) == IsAlwaysWritten(e) \/ e.msg.id = "ask_name"

\* C19 (amended): the log only grows by appending; the lines a step appends
\* are Message entries the same step appended to the history, in the
\* history's order, and they are all of these entries but the ones added
\* without writing: the welcome, the key prompts, the message for an invalid
\* environment key, and the name request of _check_for_api_key when it is
\* called with write = False.
C19_LogFollowsWrittenHistory ==
    [][/\ IsPrefix(log, log')
       /\ IsPrefix(history, history')
       /\ \/ Added(log, log') = SelectSeq(Added(history, history'), IsAlwaysWritten)
          \/ Added(log, log') = SelectSeq(Added(history, history'), IsWrittenOrNameRequest)]_vars

C19_Witness ==
    /\ Len(log) >= 3
    /\ \E i \in 1..Len(history) : history[i].msg.id = "ask_name"
    /\ \A i \in 1..Len(log) : log[i].msg.id # "ask_name"
    /\ \E i \in 1..Len(history) : IsToolEntry(history[i])

----------------------------------------------------------------------------
(* The session with any user name: the name is free text, and so can be *)
(* the string that marks a tool entry                                    *)

AnyNames == Names \cup {ToolRole}

GetAnyUserName ==
    /\ Dispatch("_get_user_name")
    /\ \E name \in AnyNames : Commit(_get_user_name([St EXCEPT !.input = name]))

NextAnyName ==
    \/ CheckForApiKey
    \/ GetApiKey
    \/ GetAnyUserName
    \/ GetContext
    \/ UploadFile
    \/ GetDataInput
    \/ AskForManualDataInput
    \/ GetDataFileDescription
    \/ GetDataInputManual
    \/ GetResponse

SpecAnyName == Init /\ [][NextAnyName]_vars

\* C20: once ingestion has started, the number of tool entries
\* ({"tool": ...}) in the history equals the number of names in read_tools,
\* read_tools holds no name twice, and neither number exceeds the number of
\* files of tool_list.
C20_ToolEntriesMatchReadTools ==
    started_tool_input =>
        /\ Count(history, IsToolEntry) = Len(read_tools)
        /\ Cardinality(Range(read_tools)) = Len(read_tools)
        /\ Len(read_tools) <= Len(tool_list)

====
